---------------------------- MODULE Spec2Model ----------------------------
(***************************************************************************)
(* Model of clean_csv_files.py: the two field normalizers (clean_datetime, *)
(* clean_value), the four table transformers and the pipeline (main).      *)
(*                                                                         *)
(* A text is a sequence of one-character strings (<<"1", ",", "5">> is the *)
(* Python str '1,5'); a table is the sequence of rows csv.reader yields,   *)
(* each row a sequence of texts.                                           *)
(***************************************************************************)
EXTENDS Integers, Sequences, FiniteSets, TLC

VARIABLES
    raw,      \* the argument of the field normalizer under test
    res,      \* its latest result
    prev,     \* the result of the call before the latest one
    op,       \* which normalizer has run: "none", "datetime", "value"
    calls,    \* how many times it has run on this text
    fs,       \* the working directory: file name -> table, or Absent
    outdir,   \* cleaned_csv/: file name -> table, or Absent
    log,      \* the message class printed last for each file name
    idx,      \* main: index into INPUT_FILES of the file the loop is at
    pc        \* main: "loop", then "done" (returned) or "raised" (left by an exception)

vars == <<raw, res, prev, op, calls, fs, outdir, log, idx, pc>>

fieldVars == <<raw, res, prev, op, calls>>
fileVars == <<fs, outdir, log, idx, pc>>

---------------------------------------------------------------------------
(* Bounds of the model.                                                    *)

\* longest text over Alphabet given to a field normalizer
MaxLen == 4
\* longest run of Alphabet characters put before and after a seed text
MaxPad == 1
\* longest header text over DateAlphabet given to the date rewriting
MaxDateLen == 8
\* most rows below the header of a generated table
MaxRows == 2
\* most cells below the header of a generated table
MaxCells == 4
\* most cells of a row of a generated wide table
MaxCols == 3

---------------------------------------------------------------------------
(* Python str primitives.                                                  *)

Digits == {"0", "1", "2", "3", "4", "5", "6", "7", "8", "9"}

\* the characters str.isspace / str.strip treat as whitespace (ASCII part)
Whitespace == {" ", "\t", "\n", "\r"}

SetMin(S) == CHOOSE x \in S : \A y \in S : x <= y

SetMax(S) == CHOOSE x \in S : \A y \in S : x >= y

\* all sequences over S of length at most n
SeqsUpTo(S, n) == UNION {[1..k -> S] : k \in 0..n}

\* str.isspace(): at least one character and all of them whitespace
IsSpace(s) == Len(s) > 0 /\ \A i \in 1..Len(s) : s[i] \in Whitespace

\* Python's None, the value csv.DictReader gives a field its row is too short
\* for; no text contains this element
None == <<"None">>

\* `not value`: None and the empty text are false
Falsy(s) == s = None \/ s = <<>>

\* the test `not value or value.isspace()`
Blank(s) == Falsy(s) \/ IsSpace(s)

\* str.strip()
Strip(s) ==
    LET keep == {i \in 1..Len(s) : s[i] \notin Whitespace}
    IN  IF keep = {} THEN <<>> ELSE SubSeq(s, SetMin(keep), SetMax(keep))

\* str.replace(c, '')
Remove(s, c) == SelectSeq(s, LAMBDA x : x # c)

\* str.replace(a, b) for single characters
Replace(s, a, b) == [i \in 1..Len(s) |-> IF s[i] = a THEN b ELSE s[i]]

AllDigits(s, from, to) == \A i \in from..to : s[i] \in Digits

\* what `$` lets a pattern end at: the end of the text, or just before a
\* newline that is the last character
DollarEnds(s) ==
    {Len(s)} \cup (IF Len(s) > 0 /\ s[Len(s)] = "\n" THEN {Len(s) - 1} ELSE {})

\* re.sub(r'\.\d+$', '', s)
StripFraction(s) ==
    LET hits == {<<b, e>> \in (1..Len(s)) \X DollarEnds(s) :
                     /\ b < e
                     /\ s[b] = "."
                     /\ AllDigits(s, b + 1, e)}
    IN  IF hits = {} THEN s
        ELSE LET h == CHOOSE x \in hits : TRUE
             IN  SubSeq(s, 1, h[1] - 1) \o SubSeq(s, h[2] + 1, Len(s))

\* re.match(r'^\d{2}-\d{2}-\d{4}\d{2}:\d{2}$', s)
MatchGluedDateTime(s) ==
    \E e \in DollarEnds(s) :
        /\ e = 15
        /\ AllDigits(s, 1, 2) /\ s[3] = "-"
        /\ AllDigits(s, 4, 5) /\ s[6] = "-"
        /\ AllDigits(s, 7, 12) /\ s[13] = ":"
        /\ AllDigits(s, 14, 15)

\* re.sub(r'(\d{2}-\d{2}-\d{4})(\d{2}:\d{2})', r'\1 \2', s) on a text that
\* MatchGluedDateTime accepts: the one occurrence starts the text
InsertSpace(s) == SubSeq(s, 1, 10) \o <<" ">> \o SubSeq(s, 11, Len(s))

\* re.match(r'^-?\d+,\d+$', s)
MatchCommaDecimal(s) ==
    \E e \in DollarEnds(s) :
        LET first == IF e >= 1 /\ s[1] = "-" THEN 2 ELSE 1
        IN  \E c \in first + 1 .. e - 1 :
                /\ s[c] = ","
                /\ AllDigits(s, first, c - 1)
                /\ AllDigits(s, c + 1, e)

---------------------------------------------------------------------------
(* FieldNormalizer.                                                        *)

clean_datetime(datetime_str) ==
    IF Blank(datetime_str) THEN <<>>
    ELSE LET unquoted == Remove(Remove(Strip(datetime_str), "\""), "\n")
             whole    == StripFraction(unquoted)
         IN  IF MatchGluedDateTime(whole) THEN InsertSpace(whole) ELSE whole

clean_value(value_str) ==
    IF Falsy(value_str) THEN <<>>
    ELSE LET unquoted == Remove(Strip(value_str), "\"")
         IN  IF MatchCommaDecimal(unquoted)
             THEN Replace(unquoted, ",", ".")
             ELSE unquoted

---------------------------------------------------------------------------
(* The file system and the pipeline's constants.                           *)

\* a text, written once so that file names read as names
LabResultGroupName == "LabResultGroup.csv"
LabResultName == "LabResult.csv"
LabResultsENName == "LabResultsEN.csv"
MeasurementName == "Measurement.csv"
PatientName == "Patient.csv"
CmasName == "CMAS.csv"

INPUT_FILES ==
    <<LabResultGroupName, LabResultName, LabResultsENName,
      MeasurementName, PatientName, CmasName>>

FileNames == {INPUT_FILES[i] : i \in 1..Len(INPUT_FILES)}

\* a file: whether it exists and, if so, the rows csv.reader yields for it
Absent == [exists |-> FALSE, rows |-> <<>>]

FileOf(table) == [exists |-> TRUE, rows |-> table]

NoFiles == [f \in FileNames |-> Absent]

NothingLogged == [f \in FileNames |-> "pending"]

---------------------------------------------------------------------------
(* I/O failures.  open(), the reader and the writer may raise at any call: *)
(* a fault names the call that does.                                       *)

NoFault == [kind |-> "none", at |-> 0]

\* "open_in": opening or reading the input raises; "open_out": opening the
\* output raises; "write" at k: k rows reach the output, then a call raises.
\* n is the number of rows the run would write.
IOFaults(n) ==
    {NoFault, [kind |-> "open_in", at |-> 0], [kind |-> "open_out", at |-> 0]}
    \cup {[kind |-> "write", at |-> k] : k \in 0..(n - 1)}

\* what a transformer call leaves behind: whether the output file was opened
\* (created or truncated), the rows in it, whether the call raised, and the
\* class of the last message it printed
Outcome(opened, rows, raised, message) ==
    [opened |-> opened, rows |-> rows, raised |-> raised, log |-> message]

---------------------------------------------------------------------------
(* TableTransformer: wide-to-long restructuring.                           *)

\* re.match(r'^\d{4}-\d{2}-\d{2}$', s)
MatchYMD(s) ==
    \E e \in DollarEnds(s) :
        /\ e = 10
        /\ AllDigits(s, 1, 4) /\ s[5] = "-"
        /\ AllDigits(s, 6, 7) /\ s[8] = "-"
        /\ AllDigits(s, 9, 10)

\* re.match(r'^\d{1,2}-\d{1,2}-\d{4}$', s)
MatchDMY(s) ==
    \E e \in DollarEnds(s) : \E a \in 1..2 : \E b \in 1..2 :
        /\ e = a + b + 6
        /\ AllDigits(s, 1, a) /\ s[a + 1] = "-"
        /\ AllDigits(s, a + 2, a + b + 1) /\ s[a + b + 2] = "-"
        /\ AllDigits(s, a + b + 3, a + b + 6)

\* str.split(sep)
RECURSIVE Split(_, _)
Split(s, sep) ==
    LET at == {i \in 1..Len(s) : s[i] = sep}
    IN  IF at = {} THEN <<s>>
        ELSE <<SubSeq(s, 1, SetMin(at) - 1)>>
             \o Split(SubSeq(s, SetMin(at) + 1, Len(s)), sep)

\* str.zfill(width)
ZFill(s, width) ==
    LET zeros == [i \in 1..(width - Len(s)) |-> "0"]
    IN  IF Len(s) >= width THEN s
        ELSE IF s # <<>> /\ s[1] \in {"+", "-"} THEN <<s[1]>> \o zeros \o Tail(s)
        ELSE zeros \o s

\* CleanDate without the zfill calls
CleanDateUnpadded(date) ==
    LET clean_date == Strip(date)
        date_parts == Split(clean_date, "-")
    IN  IF MatchYMD(clean_date)
        THEN date_parts[3] \o <<"-">> \o date_parts[2] \o <<"-">> \o date_parts[1]
        ELSE clean_date

\* the date written for a header cell
CleanDate(date) ==
    LET clean_date == Strip(date)
        date_parts == Split(clean_date, "-")
    IN  IF MatchYMD(clean_date)
        THEN date_parts[3] \o <<"-">> \o date_parts[2] \o <<"-">> \o date_parts[1]
        ELSE IF MatchDMY(clean_date)
        THEN ZFill(date_parts[1], 2) \o <<"-">> \o ZFill(date_parts[2], 2)
             \o <<"-">> \o date_parts[3]
        ELSE clean_date

\* the header row of every restructured table
LongHeader ==
    << <<"D", "a", "t", "e">>,
       <<"C", "a", "t", "e", "g", "o", "r", "y">>,
       <<"V", "a", "l", "u", "e">> >>

\* TooFewRows with only the `not data` half of the test
TooFewRowsEmptyOnly(data) == data = <<>>

\* `not data or len(data) < 2`
TooFewRows(data) == data = <<>> \/ Len(data) < 2

\* CmasEmits with only the `not value` half of the skip test
CmasEmitsWhitespace(row, col_idx) ==
    /\ col_idx < Len(row)
    /\ ~Falsy(row[col_idx + 1])

\* whether the inner loop writes a record for column col_idx (0-based, as in
\* the source) of a row
CmasEmits(row, col_idx) ==
    /\ col_idx < Len(row)
    /\ ~Blank(row[col_idx + 1])

\* the records one body row contributes: the inner loop over range(1, len(headers))
CmasRowRecords(headers, row) ==
    IF row = <<>> THEN <<>>
    ELSE LET cols == SelectSeq([k \in 1..(Len(headers) - 1) |-> k],
                               LAMBDA c : CmasEmits(row, c))
         IN  [j \in 1..Len(cols) |->
                 <<CleanDate(headers[cols[j] + 1]), row[1], row[cols[j] + 1]>>]

\* the records of rows from..len(data) (1-based), in the outer loop's order
RECURSIVE CmasRecords(_, _)
CmasRecords(data, from) ==
    IF from > Len(data) THEN <<>>
    ELSE CmasRowRecords(data[1], data[from]) \o CmasRecords(data, from + 1)

\* every writerow call of a run that nothing interrupts
CmasWrites(data) == <<LongHeader>> \o CmasRecords(data, 2)

\* clean_cmas_csv without its try / except: what raises leaves the call
clean_cmas_csv_uncaught(data, fault) ==
    IF fault.kind = "open_in"
    THEN Outcome(FALSE, <<>>, TRUE, "raised")
    ELSE IF TooFewRows(data)
    THEN Outcome(FALSE, <<>>, FALSE, "warned")
    ELSE IF fault.kind = "open_out"
    THEN Outcome(FALSE, <<>>, TRUE, "raised")
    ELSE IF fault.kind = "write" /\ fault.at < Len(CmasWrites(data))
    THEN Outcome(TRUE, SubSeq(CmasWrites(data), 1, fault.at), TRUE, "raised")
    ELSE Outcome(TRUE, CmasWrites(data), FALSE, "cleaned")

clean_cmas_csv(data, fault) ==
    IF fault.kind = "open_in"
    THEN Outcome(FALSE, <<>>, FALSE, "error_read")
    ELSE IF TooFewRows(data)
    THEN Outcome(FALSE, <<>>, FALSE, "warned")
    ELSE IF fault.kind = "open_out"
    THEN Outcome(FALSE, <<>>, FALSE, "error_create")
    ELSE IF fault.kind = "write" /\ fault.at < Len(CmasWrites(data))
    THEN Outcome(TRUE, SubSeq(CmasWrites(data), 1, fault.at), FALSE, "error_write")
    ELSE Outcome(TRUE, CmasWrites(data), FALSE, "cleaned")

---------------------------------------------------------------------------
(* TableTransformer: the three csv.DictReader / csv.DictWriter passes.     *)

DateTimeKey == <<"D", "a", "t", "e", "T", "i", "m", "e">>

ValueKey == <<"V", "a", "l", "u", "e">>

\* the rows csv.DictReader yields after the field names: it passes over rows
\* without cells
DictRows(table) ==
    IF table = <<>> THEN <<>> ELSE SelectSeq(Tail(table), LAMBDA r : r # <<>>)

\* row[fieldnames[i]] of the dict DictReader builds: the cell of the last
\* column of that name, None if the row is too short for it
Field(fieldnames, row, i) ==
    LET last == SetMax({j \in 1..Len(fieldnames) : fieldnames[j] = fieldnames[i]})
    IN  IF last <= Len(row) THEN row[last] ELSE None

\* the dict has the key None (restkey) holding a list of the cells beyond
\* the field names
HasRest(fieldnames, row) == Len(row) > Len(fieldnames)

\* csv.writer writes None as the empty text
WriteCell(v) == IF v = None THEN <<>> ELSE v

\* index of the first row a pass cannot process (0: there is none): a row with
\* more cells than field names makes value.isspace() / value.strip() raise
\* AttributeError on the list, or DictWriter.writerow raise ValueError
FirstLongRow(fieldnames, recs) ==
    LET long == {j \in 1..Len(recs) : HasRest(fieldnames, recs[j])}
    IN  IF long = {} THEN 0 ELSE SetMin(long)

\* reader.fieldnames: the first row (None for a file without rows, which
\* DictPass tells apart by the table itself)
FieldNames(table) == IF table = <<>> THEN <<>> ELSE table[1]

\* the records the loop gets through: those before the first row it cannot
\* process
GoodRows(table) ==
    LET recs == DictRows(table)
        bad  == FirstLongRow(FieldNames(table), recs)
    IN  IF bad = 0 THEN recs ELSE SubSeq(recs, 1, bad - 1)

\* the with-block shared by the three passes; emitted is the rows the loop
\* writes for GoodRows(table)
DictPass(table, fault, emitted) ==
    IF fault.kind \in {"open_in", "open_out"}
    THEN Outcome(FALSE, <<>>, TRUE, "raised")
    ELSE IF table = <<>>
    THEN Outcome(TRUE, <<>>, TRUE, "raised")
    ELSE LET writes == <<FieldNames(table)>> \o emitted
         IN  IF fault.kind = "write" /\ fault.at < Len(writes)
             THEN Outcome(TRUE, SubSeq(writes, 1, fault.at), TRUE, "raised")
             ELSE IF FirstLongRow(FieldNames(table), DictRows(table)) # 0
             THEN Outcome(TRUE, writes, TRUE, "raised")
             ELSE Outcome(TRUE, writes, FALSE, "cleaned")

\* MeasurementRow stripping the fields it should pass through, as the generic
\* pass does
MeasurementRowStripped(fieldnames, row) ==
    [i \in 1..Len(fieldnames) |->
        LET v == Field(fieldnames, row, i)
        IN  IF fieldnames[i] = DateTimeKey THEN clean_datetime(v)
            ELSE IF fieldnames[i] = ValueKey THEN clean_value(v)
            ELSE IF Falsy(v) THEN <<>> ELSE Strip(v)]

\* the row clean_measurement_csv writes for one record
MeasurementRow(fieldnames, row) ==
    [i \in 1..Len(fieldnames) |->
        LET v == Field(fieldnames, row, i)
        IN  WriteCell(IF fieldnames[i] = DateTimeKey THEN clean_datetime(v)
                      ELSE IF fieldnames[i] = ValueKey THEN clean_value(v)
                      ELSE v)]

MeasurementEmit(fieldnames, recs) ==
    [j \in 1..Len(recs) |-> MeasurementRow(fieldnames, recs[j])]

clean_measurement_csv(table, fault) ==
    DictPass(table, fault, MeasurementEmit(FieldNames(table), GoodRows(table)))

\* AllBlank with only the `not value` half of the test
AllBlankEmptyOnly(fieldnames, row) ==
    \A i \in 1..Len(fieldnames) : Falsy(Field(fieldnames, row, i))

\* all(not value or value.isspace() for value in row.values())
AllBlank(fieldnames, row) ==
    \A i \in 1..Len(fieldnames) : Blank(Field(fieldnames, row, i))

\* {key: value.strip() if value else "" ...}
GenericRow(fieldnames, row) ==
    [i \in 1..Len(fieldnames) |->
        LET v == Field(fieldnames, row, i)
        IN  IF Falsy(v) THEN <<>> ELSE Strip(v)]

GenericEmit(fieldnames, recs) ==
    LET kept == SelectSeq(recs, LAMBDA r : ~AllBlank(fieldnames, r))
    IN  [j \in 1..Len(kept) |-> GenericRow(fieldnames, kept[j])]

clean_generic_csv(table, fault) ==
    DictPass(table, fault, GenericEmit(FieldNames(table), GoodRows(table)))

PatientRow(fieldnames, row) ==
    [i \in 1..Len(fieldnames) |-> WriteCell(Field(fieldnames, row, i))]

PatientEmit(fieldnames, recs) ==
    LET kept == SelectSeq(recs, LAMBDA r : ~AllBlank(fieldnames, r))
    IN  [j \in 1..Len(kept) |-> PatientRow(fieldnames, kept[j])]

clean_patient_csv(table, fault) ==
    DictPass(table, fault, PatientEmit(FieldNames(table), GoodRows(table)))

---------------------------------------------------------------------------
(* FilePipeline: main.  One action per way through the loop body.          *)

\* the file the loop is at
Current == INPUT_FILES[idx]

InLoop == pc = "loop" /\ idx <= Len(INPUT_FILES)

\* the effect of a transformer call on the pipeline: the output file, the
\* message, and either the next iteration or the exception leaving main
Dispatch(r) ==
    /\ outdir' = IF r.opened
                 THEN [outdir EXCEPT ![Current] = FileOf(r.rows)]
                 ELSE outdir
    /\ log' = [log EXCEPT ![Current] = r.log]
    /\ idx' = IF r.raised THEN idx ELSE idx + 1
    /\ pc' = IF r.raised THEN "raised" ELSE pc
    /\ UNCHANGED <<fs, fieldVars>>

\* `if not os.path.exists(input_path): ... continue`
MainSkip ==
    /\ InLoop
    /\ ~fs[Current].exists
    /\ log' = [log EXCEPT ![Current] = "skipped"]
    /\ idx' = idx + 1
    /\ UNCHANGED <<fs, outdir, pc, fieldVars>>

MainMeasurement ==
    /\ InLoop
    /\ fs[Current].exists
    /\ Current = MeasurementName
    /\ \E fault \in IOFaults(Len(fs[Current].rows)) :
           Dispatch(clean_measurement_csv(fs[Current].rows, fault))

MainCmas ==
    /\ InLoop
    /\ fs[Current].exists
    /\ Current = CmasName
    /\ \E fault \in IOFaults(Len(CmasWrites(fs[Current].rows))) :
           Dispatch(clean_cmas_csv(fs[Current].rows, fault))

MainPatient ==
    /\ InLoop
    /\ fs[Current].exists
    /\ Current = PatientName
    /\ \E fault \in IOFaults(Len(fs[Current].rows)) :
           Dispatch(clean_patient_csv(fs[Current].rows, fault))

MainGeneric ==
    /\ InLoop
    /\ fs[Current].exists
    /\ Current \notin {MeasurementName, CmasName, PatientName}
    /\ \E fault \in IOFaults(Len(fs[Current].rows)) :
           Dispatch(clean_generic_csv(fs[Current].rows, fault))

\* the loop is through the list: the closing messages, and main returns
MainReturn ==
    /\ pc = "loop"
    /\ idx = Len(INPUT_FILES) + 1
    /\ pc' = "done"
    /\ UNCHANGED <<fs, outdir, log, idx, fieldVars>>

---------------------------------------------------------------------------
(* Specification of the field normalizers: a text is drawn, then           *)
(* normalized, and the datetime result is normalized a second time.        *)

Alphabet == {" ", "\"", "\n", ".", ",", "-", "1", "a"}

\* texts of the shapes the normalizers repair, to be padded with dirt
Seeds ==
    { <<"1", "4", "-", "0", "3", "-", "2", "0", "2", "1", "1", "0", ":", "3", "0">>,
      <<"1", "4", "-", "0", "3", "-", "2", "0", "2", "1", " ", "1", "0", ":", "3", "0">>,
      <<"1", "4", "-", "0", "3", "-", "2", "0", "2", "1", "1", "0", ":", "3", "0", ".", "5", "0", "0">>,
      <<"1", "0", ":", "3", "0", ".", "5", ".", "6">>,
      <<"-", "3", ",", "1", "4">>,
      <<"1", ",", "2", ",", "3">>,
      <<"1", ".", "2", "3", "4", ",", "5">> }

TextInputs ==
    SeqsUpTo(Alphabet, MaxLen)
    \cup {p \o s \o q : p \in SeqsUpTo(Alphabet, MaxPad),
                        s \in Seeds,
                        q \in SeqsUpTo(Alphabet, MaxPad)}

InitField ==
    /\ raw \in TextInputs
    /\ res = <<>>
    /\ prev = <<>>
    /\ op = "none"
    /\ calls = 0
    /\ fs = NoFiles
    /\ outdir = NoFiles
    /\ log = NothingLogged
    /\ idx = 1
    /\ pc = "loop"

\* res = clean_datetime(raw)
NormalizeDateTime ==
    /\ calls = 0
    /\ res' = clean_datetime(raw)
    /\ prev' = raw
    /\ op' = "datetime"
    /\ calls' = 1
    /\ UNCHANGED <<raw, fileVars>>

\* res = clean_datetime(res): the result is passed through once more
NormalizeDateTimeAgain ==
    /\ op = "datetime"
    /\ calls = 1
    /\ res' = clean_datetime(res)
    /\ prev' = res
    /\ calls' = 2
    /\ UNCHANGED <<raw, op, fileVars>>

\* res = clean_value(raw)
NormalizeValue ==
    /\ calls = 0
    /\ res' = clean_value(raw)
    /\ prev' = raw
    /\ op' = "value"
    /\ calls' = 1
    /\ UNCHANGED <<raw, fileVars>>

NextField == NormalizeDateTime \/ NormalizeDateTimeAgain \/ NormalizeValue

SpecField == InitField /\ [][NextField]_vars

---------------------------------------------------------------------------
(* Generated tables.                                                       *)

RECURSIVE SumSeq(_)
SumSeq(s) == IF s = <<>> THEN 0 ELSE Head(s) + SumSeq(Tail(s))

\* the row lengths of the bodies: at most MaxRows rows of at most maxLen
\* cells, MaxCells cells in all
BodyShapes(maxLen) ==
    {sh \in SeqsUpTo(0..maxLen, MaxRows) : SumSeq(sh) <= MaxCells}

\* the rows of lengths sh holding the cells of `cells`, in order
Body(sh, cells) ==
    [i \in 1..Len(sh) |->
        [j \in 1..sh[i] |-> cells[SumSeq(SubSeq(sh, 1, i - 1)) + j]]]

Bodies(maxLen, Cells) ==
    UNION {{Body(sh, c) : c \in [1..SumSeq(sh) -> Cells]} : sh \in BodyShapes(maxLen)}

\* an empty cell, a whitespace cell, a value
WideCells == {<<>>, <<" ">>, <<"5">>}

\* the header cells of the generated wide tables, by column: the row label,
\* then dates of the three shapes in turn
WideHeaderCell(k) ==
    IF k = 1 THEN <<"C", "a", "t">>
    ELSE IF k % 3 = 2 THEN <<"2", "0", "2", "1", "-", "0", "3", "-", "1", "4">>
    ELSE IF k % 3 = 0 THEN <<" ", "5", "-", "6", "-", "2", "0", "2", "1">>
    ELSE <<"n", "/", "a">>

WideHeader(n) == [k \in 1..n |-> WideHeaderCell(k)]

\* the empty file, and every header over every body
WideTables ==
    {<<>>} \cup {<<WideHeader(n)>> \o b : n \in 0..MaxCols, b \in Bodies(MaxCols, WideCells)}

\* an empty cell, a whitespace cell, and a text each cleaning changes in its
\* own way
FlatCells == {<<>>, <<" ">>, <<" ", "1", ",", "5", " ">>}

IdKey == <<"I", "D">>

FlatHeaders ==
    {<<>>, <<IdKey>>, <<DateTimeKey, ValueKey>>, <<ValueKey, IdKey, DateTimeKey>>}

\* the empty file, and every header over every body; a row has up to one
\* cell more than the header
FlatTables ==
    {<<>>} \cup UNION {{<<h>> \o b : b \in Bodies(Len(h) + 1, FlatCells)} : h \in FlatHeaders}

\* the state of main when it reaches file number i having found none of the
\* files before it
ReachedWith(i, table) ==
    /\ fs = [f \in FileNames |-> IF f = INPUT_FILES[i] THEN FileOf(table) ELSE Absent]
    /\ outdir = NoFiles
    /\ log = [f \in FileNames |->
                 IF \E j \in 1..(i - 1) : INPUT_FILES[j] = f THEN "skipped" ELSE "pending"]
    /\ idx = i
    /\ pc = "loop"
    /\ raw = <<>>
    /\ res = <<>>
    /\ prev = <<>>
    /\ op = "none"
    /\ calls = 0

---------------------------------------------------------------------------
(* Specification of the wide-to-long restructuring: main is at CMAS.csv.   *)

InitCmas == \E table \in WideTables : ReachedWith(6, table)

NextCmas == MainCmas \/ MainReturn

SpecCmas == InitCmas /\ [][NextCmas]_vars

---------------------------------------------------------------------------
(* Specification of the date rewriting: CMAS.csv has one date column and   *)
(* one body row, and the header text is drawn.                             *)

DateAlphabet == {"1", "-", " "}

DateSeeds ==
    { <<"2", "0", "2", "1", "-", "0", "3", "-", "1", "4">>,
      <<"1", "4", "-", "0", "3", "-", "2", "0", "2", "1">>,
      <<"5", "-", "6", "-", "2", "0", "2", "1">>,
      <<"5", "-", "0", "6", "-", "2", "0", "2", "1">>,
      <<"0", "5", "-", "6", "-", "2", "0", "2", "1">>,
      <<"2", "0", "2", "1", "-", "3", "-", "1", "4">>,
      <<"5", "-", "6", "-", "2", "1">>,
      <<"n", "o", "t", "-", "a", "-", "d", "a", "t", "e">> }

DatePads == SeqsUpTo(DateAlphabet \cup {"\n", "a"}, MaxPad)

DateInputs ==
    SeqsUpTo(DateAlphabet, MaxDateLen)
    \cup {p \o s \o q : p \in DatePads, s \in DateSeeds, q \in DatePads}

InitDate ==
    \E d \in DateInputs : \E v \in {<<"5">>, <<"7", " ">>} :
        ReachedWith(6, << <<WideHeaderCell(1), d>>, <<<<"A">>, v>> >>)

SpecDate == InitDate /\ [][NextCmas]_vars

---------------------------------------------------------------------------
(* Specifications of the flat passes: main is at Measurement.csv, and at   *)
(* LabResultGroup.csv.                                                     *)

InitMeasurement == \E table \in FlatTables : ReachedWith(4, table)

NextMeasurement == MainMeasurement

SpecMeasurement == InitMeasurement /\ [][NextMeasurement]_vars

InitGeneric == \E table \in FlatTables : ReachedWith(1, table)

NextGeneric == MainGeneric

SpecGeneric == InitGeneric /\ [][NextGeneric]_vars

---------------------------------------------------------------------------
(* Specification of the pipeline: every file of the list is absent or      *)
(* holds one of a few tables.                                              *)

MainTables ==
    { << <<IdKey, ValueKey>> >>,
      << <<IdKey, ValueKey>>, <<<<"7">>, <<" ", "1", ",", "5">>>> >>,
      << <<IdKey, ValueKey>>, <<<<"7">>, <<"1">>, <<"2">>>> >> }

Init ==
    /\ fs \in [FileNames -> {Absent} \cup {FileOf(table) : table \in MainTables}]
    /\ outdir = NoFiles
    /\ log = NothingLogged
    /\ idx = 1
    /\ pc = "loop"
    /\ raw = <<>>
    /\ res = <<>>
    /\ prev = <<>>
    /\ op = "none"
    /\ calls = 0

Next ==
    \/ MainSkip
    \/ MainMeasurement
    \/ MainCmas
    \/ MainPatient
    \/ MainGeneric
    \/ MainReturn

Spec == Init /\ [][Next]_vars

---------------------------------------------------------------------------
(* Vocabulary of the properties.                                           *)

\* neither the first nor the last character is whitespace
NoEdgeSpace(t) == t = <<>> \/ (t[1] \notin Whitespace /\ t[Len(t)] \notin Whitespace)

NoChar(t, c) == \A i \in 1..Len(t) : t[i] # c

\* the text ends in a period followed by one or more digits
EndsInFraction(t) ==
    \E b \in 1..(Len(t) - 1) : t[b] = "." /\ \A i \in (b + 1)..Len(t) : t[i] \in Digits

\* DD-MM-YYYY directly followed by HH:MM
IsGlued(t) ==
    /\ Len(t) = 15
    /\ \A i \in {1, 2, 4, 5, 7, 8, 9, 10, 11, 12, 14, 15} : t[i] \in Digits
    /\ t[3] = "-" /\ t[6] = "-" /\ t[13] = ":"

\* optional minus, digits, one comma, digits
IsCommaDecimal(t) ==
    LET body == IF t # <<>> /\ t[1] = "-" THEN Tail(t) ELSE t
        commas == {i \in 1..Len(body) : body[i] = ","}
    IN  /\ Cardinality(commas) = 1
        /\ \A i \in 1..Len(body) : body[i] \in Digits \cup {","}
        /\ body[1] # "," /\ body[Len(body)] # ","

CmasIn == fs[CmasName].rows
CmasOut == outdir[CmasName]

\* the cells of a wide table that yield a record: body row i, column k
\* (1-based, so k >= 2), the row has the cell, and it is not blank
RecordCells(data) ==
    IF data = <<>> THEN {}
    ELSE {p \in (2..Len(data)) \X (2..Len(data[1])) :
              /\ p[2] <= Len(data[p[1]])
              /\ data[p[1]][p[2]] # <<>>
              /\ ~IsSpace(data[p[1]][p[2]])}

\* the place of p among the pairs of P: row order, then column order
Place(p, P) ==
    1 + Cardinality({q \in P : q[1] < p[1] \/ (q[1] = p[1] /\ q[2] < p[2])})

\* the place of i in the set of numbers I
PlaceIn(i, I) == 1 + Cardinality({j \in I : j < i})

---------------------------------------------------------------------------
(* The claims.                                                             *)

\* C1: the pipeline always runs to completion: whatever files are absent,
\* processed or failing, main never ends by raising, the files are reached in
\* list order, and when main has returned every file of the list was reached.
C1_RunsToCompletion ==
    /\ pc # "raised"
    /\ \A j \in 1..Len(INPUT_FILES) :
           (log[INPUT_FILES[j]] # "pending") <=> (j < idx)
    /\ pc = "done" => idx = Len(INPUT_FILES) + 1

\* C2: on a table of at least 2 rows that is read and written without an I/O
\* failure, clean_cmas_csv writes the header (Date, Category, Value) and then
\* exactly one record (rewritten header[k], row[0], row[k]) for every body row
\* and every column k >= 1 below the header length for which the row has a
\* cell that is not blank, in row order and then column order, and nothing else.
C2_WideToLong ==
    LET P == RecordCells(CmasIn)
    IN  (log[CmasName] \in {"cleaned", "warned"} /\ Len(CmasIn) >= 2) =>
            /\ log[CmasName] = "cleaned"
            /\ CmasOut.exists
            /\ Len(CmasOut.rows) = 1 + Cardinality(P)
            /\ CmasOut.rows[1] = << <<"D", "a", "t", "e">>,
                                    <<"C", "a", "t", "e", "g", "o", "r", "y">>,
                                    <<"V", "a", "l", "u", "e">> >>
            /\ \A p \in P :
                   CmasOut.rows[1 + Place(p, P)] =
                       <<CleanDate(CmasIn[1][p[2]]), CmasIn[p[1]][1], CmasIn[p[1]][p[2]]>>

\* a run that wrote records of two different rows
C2_Witness ==
    /\ log[CmasName] = "cleaned"
    /\ \E p \in RecordCells(CmasIn) : \E q \in RecordCells(CmasIn) : p[1] # q[1]

\* the date C3 expects for the trimmed header text d
C3_Expected(d) ==
    IF /\ Len(d) = 10
       /\ \A i \in {1, 2, 3, 4, 6, 7, 9, 10} : d[i] \in Digits
       /\ d[5] = "-" /\ d[8] = "-"
    THEN <<d[9], d[10], "-", d[6], d[7], "-", d[1], d[2], d[3], d[4]>>
    ELSE IF \E a \in 1..2 : \E b \in 1..2 :
               /\ Len(d) = a + b + 6
               /\ \A i \in (1..a) \cup ((a + 2)..(a + b + 1)) \cup ((a + b + 3)..(a + b + 6)) :
                      d[i] \in Digits
               /\ d[a + 1] = "-" /\ d[a + b + 2] = "-"
    THEN LET a == IF d[2] = "-" THEN 1 ELSE 2
             b == Len(d) - a - 6
             day == IF a = 1 THEN <<"0", d[1]>> ELSE <<d[1], d[2]>>
             month == IF b = 1 THEN <<"0", d[a + 2]>> ELSE <<d[a + 2], d[a + 3]>>
         IN  day \o <<"-">> \o month \o <<"-">> \o SubSeq(d, Len(d) - 3, Len(d))
    ELSE d

\* C3: the date of every record is a function of the trimmed header text d of
\* its column alone: YYYY-MM-DD is reordered to DD-MM-YYYY; otherwise 1-2
\* digits, dash, 1-2 digits, dash, 4 digits gets day and month zero-padded to
\* two digits and keeps the year; otherwise d is written unchanged.
C3_DateRewrite ==
    LET P == RecordCells(CmasIn)
    IN  log[CmasName] = "cleaned" =>
            \A p \in P :
                CmasOut.rows[1 + Place(p, P)][1] = C3_Expected(Strip(CmasIn[1][p[2]]))

\* a record whose header was trimmed and had its day and month padded
C3_Witness ==
    /\ log[CmasName] = "cleaned"
    /\ Len(CmasOut.rows) = 2
    /\ Len(CmasIn[1]) = 2
    /\ Strip(CmasIn[1][2]) # CmasIn[1][2]
    /\ Len(CmasOut.rows[2][1]) = Len(Strip(CmasIn[1][2])) + 2

\* C4: clean_datetime is idempotent: for every text without a second
\* fractional-seconds suffix (one pass leaves no suffix behind), a second
\* pass returns what the first returned.
C4_Idempotent ==
    (op = "datetime" /\ calls = 2 /\ ~EndsInFraction(prev)) => res = prev

\* C5: the result of clean_datetime has no leading or trailing whitespace, no
\* double quote, no newline, does not end in a period and digits, is no date
\* glued to a time, and is empty for an empty or all-whitespace text.
C5_DateTimeInvariants ==
    (op = "datetime" /\ calls = 1) =>
        /\ NoEdgeSpace(res)
        /\ NoChar(res, "\"")
        /\ NoChar(res, "\n")
        /\ ~EndsInFraction(res)
        /\ ~IsGlued(res)
        /\ (raw = <<>> \/ IsSpace(raw)) => res = <<>>

\* C6: the result of clean_value has no surrounding whitespace and no double
\* quote; the comma of the stripped, unquoted text is replaced by a period if
\* and only if that text is an optional minus, digits, one comma, digits; an
\* empty text gives an empty result.
C6_ValueInvariants ==
    (op = "value" /\ calls = 1) =>
        LET t == Remove(Strip(raw), "\"")
        IN  /\ NoEdgeSpace(res)
            /\ NoChar(res, "\"")
            /\ res = IF IsCommaDecimal(t) THEN Replace(t, ",", ".") ELSE t
            /\ raw = <<>> => res = <<>>

MeasurementIn == fs[MeasurementName].rows
MeasurementOut == outdir[MeasurementName]

\* the data rows of a flat table: the rows below the header that hold a cell
DataRows(data) == {i \in 2..Len(data) : data[i] # <<>>}

\* C7: when clean_measurement_csv returns normally, the output has the header
\* of the input and one row for each data row of the input, in the same order
\* and with the same columns; the DateTime field is clean_datetime of the
\* input field, the Value field clean_value of it, and every other field is
\* the input field (a field the row is too short for is written empty).
C7_FlatFrame ==
    LET data == MeasurementIn
        R == DataRows(data)
    IN  log[MeasurementName] = "cleaned" =>
            /\ MeasurementOut.exists
            /\ Len(MeasurementOut.rows) = 1 + Cardinality(R)
            /\ MeasurementOut.rows[1] = data[1]
            /\ \A i \in R :
                   LET o == MeasurementOut.rows[1 + PlaceIn(i, R)]
                   IN  /\ Len(o) = Len(data[1])
                       /\ \A c \in 1..Len(data[1]) :
                              LET in == IF c <= Len(data[i]) THEN data[i][c] ELSE <<>>
                              IN  o[c] = IF data[1][c] = <<"D", "a", "t", "e", "T", "i", "m", "e">>
                                         THEN clean_datetime(in)
                                         ELSE IF data[1][c] = <<"V", "a", "l", "u", "e">>
                                         THEN clean_value(in)
                                         ELSE in

\* two data rows, DateTime, Value and a third column, and three different
\* results for the same input text in one row
C7_Witness ==
    /\ log[MeasurementName] = "cleaned"
    /\ Len(MeasurementOut.rows) = 3
    /\ Len(MeasurementIn[1]) = 3
    /\ \E i \in 2..Len(MeasurementOut.rows) :
           Cardinality({MeasurementOut.rows[i][c] : c \in 1..3}) = 3

GenericIn == fs[LabResultGroupName].rows
GenericOut == outdir[LabResultGroupName]

\* the rows holding a field that is neither empty nor all whitespace
KeptRows(data) ==
    {i \in 2..Len(data) :
        \E c \in 1..Len(data[i]) : data[i][c] # <<>> /\ ~IsSpace(data[i][c])}

\* C8: when clean_generic_csv returns normally, the output has the header of
\* the input and exactly the rows that hold a field neither empty nor all
\* whitespace, in input order, every field stripped and a missing or empty
\* field written as the empty text; a row whose every field is empty, missing
\* or whitespace is not in the output.
C8_GenericRows ==
    LET data == GenericIn
        K == KeptRows(data)
    IN  log[LabResultGroupName] = "cleaned" =>
            /\ GenericOut.exists
            /\ Len(GenericOut.rows) = 1 + Cardinality(K)
            /\ GenericOut.rows[1] = data[1]
            /\ \A i \in K :
                   LET o == GenericOut.rows[1 + PlaceIn(i, K)]
                   IN  /\ Len(o) = Len(data[1])
                       /\ \A c \in 1..Len(data[1]) :
                              o[c] = IF c <= Len(data[i]) THEN Strip(data[i][c]) ELSE <<>>

\* a whitespace-only row was dropped, and the row after it kept with a field
\* stripped and a missing field written empty
C8_Witness ==
    /\ log[LabResultGroupName] = "cleaned"
    /\ Len(GenericIn) = 3
    /\ Len(GenericIn[2]) > 0
    /\ KeptRows(GenericIn) = {3}
    /\ Len(GenericIn[3]) < Len(GenericIn[1])
    /\ GenericOut.rows[2][1] # GenericIn[3][1]

\* C9: when the table read has fewer than 2 rows, clean_cmas_csv ends with the
\* warning, the output file is never opened, so none exists, and the call
\* returns normally: the pipeline goes on to the next file.
C9_TooFewRows ==
    (log[CmasName] \notin {"pending", "error_read"} /\ Len(CmasIn) < 2) =>
        /\ log[CmasName] = "warned"
        /\ ~CmasOut.exists
        /\ pc # "raised"
        /\ idx = Len(INPUT_FILES) + 1

\* a header-only table was warned about and main returned
C9_Witness ==
    /\ log[CmasName] = "warned"
    /\ Len(CmasIn) = 1
    /\ ~CmasOut.exists
    /\ pc = "done"

\* C10: whatever raises while clean_cmas_csv reads, transforms or writes, the
\* exception does not leave the call: main never ends by raising and goes on
\* to the next file, and the output file, if one was opened, holds the header
\* and a prefix of the records.
C10_CmasCatches ==
    /\ pc # "raised"
    /\ log[CmasName] # "pending" => idx = Len(INPUT_FILES) + 1
    /\ log[CmasName] \in {"error_read", "error_create"} => ~CmasOut.exists
    /\ log[CmasName] = "error_write" =>
           /\ CmasOut.exists
           /\ Len(CmasOut.rows) < Len(CmasWrites(CmasIn))
           /\ CmasOut.rows = SubSeq(CmasWrites(CmasIn), 1, Len(CmasOut.rows))

\* a write failed after the header and one record, with records still to
\* come, and main returned
C10_Witness ==
    /\ log[CmasName] = "error_write"
    /\ Len(CmasOut.rows) = 2
    /\ Cardinality(RecordCells(CmasIn)) >= 2
    /\ pc = "done"

===========================================================================
